---- MODULE Spec2Model ----
(***************************************************************************)
(* Resume intake of the job board: the views load_home and job_detail      *)
(* (src/job/views.py) and the verifier / classifier they call              *)
(* (src/job/resume_verifier.py).  A request is handled by a worker whose   *)
(* position in the handler is pc[w]; the locals of the handler and of the  *)
(* functions it calls are per-worker variables named as in the source.     *)
(* Python values are written as strings of their repr ("None", "True").    *)
(***************************************************************************)
EXTENDS Integers, Sequences, FiniteSets, TLC

\* ------------------------------------------------------------------ bounds
MaxRequests == 3
MaxRows == 2
MaxJobId == 4

\* the handler invocations that can be in progress; Sequential is the one
\* that serves requests back to back
Workers == {"w1", "w2"}
Sequential == {"w1"}

\* ------------------------------------------------------------ the inputs
NL == "\n"
BS == "\\"
QUOTE == "'"

\* request.user: the anonymous user or a logged-in one
Users == {"anon", "u1"}
is_authenticated(u) == u # "anon"

\* the slugs a job_detail request may name; only "j1" is a stored Job
Jobs == {"j1"}
Slugs == {"j1", "nojob"}

\* uploaded documents (the bytes resume.read() returns), one character a cell
NoFile == <<"<no file>">>
Docs == { <<"c", "a", "t", "s">>,
          <<"C", "a", "t", NL, "b", "s">> }

\* -------------------------------------------------- the stored artifacts
\* the files under STATIC_ROOT/ML the two functions open
VerifierFile == "doc_classifier_nb_model.sav"
VocabFile == "keywords_token_set.pickle"
ClassifierFile == "resume_identifier.pickle"
Artifacts == {VerifierFile, VocabFile, ClassifierFile}

\* what unpickling each file yields
doc_classifier_nb_model == "modl"
resume_identifier == "mnb"
StoredKeywords == { <<"b">>, <<"c", "a", "t">>, <<"b", "s">> }

\* the labels the two models can answer with
Predictions == {"0", "1"}
Labels == {"True", "False", "PYTHON"}

\* ------------------------------------------------------ Python helpers
None == <<>>
Some(x) == <<x>>

\* `if x:` on a label
PyTruthyAlways(v) == TRUE
PyTruthy(v) == v \notin {"False", "None", "0", ""}

\* str.lower() on one character
LowerChar(c) == IF c = "C" THEN "c" ELSE c
Lower(s) == [i \in 1..Len(s) |-> LowerChar(s[i])]

\* the regular expression class \w on the characters in use
IsWordChar(c) == c \in {"a", "b", "c", "n", "s", "t", "C"}

\* str(data) on a bytes object: the repr b'...' with a newline escaped
RECURSIVE Escaped(_)
Escaped(s) ==
    IF s = <<>> THEN <<>>
    ELSE (IF Head(s) = NL THEN <<BS, "n">> ELSE <<Head(s)>>) \o Escaped(Tail(s))

PyStr(d) == <<"b", QUOTE>> \o Escaped(d) \o <<QUOTE>>

\* re.findall(r'\w+', s): the maximal runs of word characters, left to right
RECURSIVE Scan(_, _, _, _)
Scan(s, i, cur, acc) ==
    IF i > Len(s)
    THEN IF cur # <<>> THEN Append(acc, cur) ELSE acc
    ELSE IF IsWordChar(s[i])
         THEN Scan(s, i + 1, Append(cur, s[i]), acc)
         ELSE Scan(s, i + 1, <<>>, IF cur # <<>> THEN Append(acc, cur) ELSE acc)

FindAll(s) == Scan(s, 1, <<>>, <<>>)

SeqToSet(q) == {q[i] : i \in 1..Len(q)}

\* stemming.porter2.stem on words over the letters in use: a word of one or
\* two letters is returned as it is; step 1a drops a final "s" (not "ss")
\* when the part before it holds a vowel that is not the letter next to it;
\* no other step has a suffix spelt with these letters
Vowels == {"a"}
stem(w) ==
    IF Len(w) <= 2 THEN w
    ELSE IF /\ w[Len(w)] = "s"
            /\ w[Len(w) - 1] # "s"
            /\ \E i \in 1..(Len(w) - 2) : w[i] \in Vowels
         THEN SubSeq(w, 1, Len(w) - 1)
         ELSE w

\* text = [stem(e) for e in set(re.findall(r'\w+', text.lower()))]
\* (the list is kept as the set of its elements: only `in` is applied to it)
StemmedTokens(s) == {stem(e) : e \in SeqToSet(FindAll(Lower(s)))}

\* for word in keywords_token_set: features[word] = word in text
RECURSIVE FeatureLoop(_, _, _)
FeatureLoop(todo, text_, features_) ==
    IF todo = {} THEN features_
    ELSE LET word == CHOOSE x \in todo : TRUE
         IN FeatureLoop(todo \ {word}, text_,
                        [x \in DOMAIN features_ \cup {word} |->
                            IF x = word THEN word \in text_ ELSE features_[x]])

EmptyDict == [x \in {} |-> FALSE]


\* Resume.parse_resume(): the same fixed mapping on every call
parse_resume ==
    [applied_for |-> "Title",
     personal_info |-> "Name Ram Shah",
     education |-> "this is the education that is extrcted",
     experience |-> "this is the values that we get for the experience",
     skills |-> "this is the values that we get for the skills"]

\* the texts handed to django.contrib.messages
MsgUploaded == <<"success", "Resume Uploaded Successfully!">>
MsgNotValid == <<"error", "The Resume is not valid, try again!">>
MsgBlank == <<"error", " ">>

\* ------------------------------------------------------------- the state
VARIABLES
    pc,                  \* where each worker stands in its handler
    request,             \* the request a worker is handling
    exc,                 \* the exception that left the handler unhandled
    messages,            \* the messages issued to the user in this request
    data,                \* load_home: data = resume.read()
    resume_status1,      \* load_home: what resume_verifier returned
    resume_status,       \* load_home: what resume_classifier returned
    doc_pred,            \* resume_verifier: doc_pred[0]
    modl,                \* resume_verifier: the loaded verifier model
    keywords_token_set,  \* resume_classifier: the loaded vocabulary
    text,                \* resume_classifier: the stemmed tokens
    features,            \* resume_classifier: the feature vector
    mnb,                 \* resume_classifier: the loaded classifier
    handle,              \* the file object a call opened on each artifact
    TempResume,          \* the rows of the model TempResume
    ParsedResume,        \* the rows of the model ParsedResume
    Applicant,           \* the rows of the model Applicant
    recent_resume,       \* User.recent_resume, as the id of the TempResume row
    loads,               \* how often each artifact has been unpickled
    uses,                \* how often a loaded artifact has been used
    calls,               \* how often the function opening the artifact was entered
    nreq,                \* requests received so far
    trace,               \* the intake states a request has passed through
    Job,                 \* the ids of the rows of the model Job
    job,                 \* filtered_job: the list job
    todo,                \* filtered_job: the ids the for loop has still to visit
    education,           \* UserProfile.education: how many rows are related
    work_experience,     \* UserProfile.work_experience: likewise
    trainings,           \* UserProfile.trainings: likewise
    skills,              \* UserProfile.skills: likewise
    status               \* what profile_status() returned for a profile

locals == <<data, resume_status1, resume_status, doc_pred, modl,
            keywords_token_set, text, features, mnb>>
db == <<TempResume, ParsedResume, Applicant, recent_resume>>
counters == <<loads, uses, calls>>
web == <<pc, request, exc, messages, locals, handle, db, counters, nreq, trace>>
listing == <<Job, job, todo>>
profile == <<education, work_experience, trainings, skills, status>>
vars == <<web, listing, profile>>

\* the UserProfile rows looked at
Profiles == {"p1", "p2"}

NoRequest ==
    [id |-> 0, view |-> "none", method |-> "GET", user |-> "anon",
     file |-> NoFile, slug |-> "none"]

NoHandles == [a \in Artifacts |-> "none"]

\* no handler has run yet: no locals, no open file, empty tables
Fresh ==
    /\ exc = [w \in Workers |-> "none"]
    /\ messages = [w \in Workers |-> <<>>]
    /\ data = [w \in Workers |-> None]
    /\ resume_status1 = [w \in Workers |-> "None"]
    /\ resume_status = [w \in Workers |-> "None"]
    /\ doc_pred = [w \in Workers |-> "None"]
    /\ modl = [w \in Workers |-> "None"]
    /\ keywords_token_set = [w \in Workers |-> None]
    /\ text = [w \in Workers |-> None]
    /\ features = [w \in Workers |-> None]
    /\ mnb = [w \in Workers |-> "None"]
    /\ handle = [w \in Workers |-> NoHandles]
    /\ TempResume = {}
    /\ ParsedResume = {}
    /\ Applicant = {}
    /\ recent_resume = [u \in Users \ {"anon"} |-> 0]
    /\ loads = [a \in Artifacts |-> 0]
    /\ uses = [a \in Artifacts |-> 0]
    /\ calls = [a \in Artifacts |-> 0]
    /\ trace = [w \in Workers |-> <<>>]

WebInit ==
    /\ pc = [w \in Workers |-> "idle"]
    /\ request = [w \in Workers |-> NoRequest]
    /\ nreq = 0
    /\ Fresh

\* no filtered_job request in progress
ListingIdle ==
    /\ job = [w \in Workers |-> <<>>]
    /\ todo = [w \in Workers |-> <<>>]

\* profiles with no related rows, profile_status() not called
ProfilesEmpty ==
    /\ education = [p \in Profiles |-> 0]
    /\ work_experience = [p \in Profiles |-> 0]
    /\ trainings = [p \in Profiles |-> 0]
    /\ skills = [p \in Profiles |-> 0]
    /\ status = [p \in Profiles |-> None]

\* the state before any request: the one Job row "j1" has id 1
Init ==
    /\ WebInit
    /\ Job = {1}
    /\ ListingIdle
    /\ ProfilesEmpty

\* an exception nothing in the handler catches: the request ends there
Raise(w, e) ==
    /\ pc' = [pc EXCEPT ![w] = "crashed"]
    /\ exc' = [exc EXCEPT ![w] = e]

Goto(w, label) ==
    /\ pc' = [pc EXCEPT ![w] = label]
    /\ UNCHANGED exc

\* ------------------------------------------------- a request comes in
Request(w) ==
    /\ pc[w] \in {"idle", "done", "crashed"}
    /\ nreq < MaxRequests
    /\ \E view \in {"load_home", "job_detail"}, method \in {"GET", "POST"},
          user \in Users, file \in Docs \cup {NoFile}, slug \in Slugs :
          /\ view = "load_home" => slug = "j1"
          /\ method = "GET" => file = NoFile
          /\ request' = [request EXCEPT ![w] =
                [id |-> nreq + 1, view |-> view, method |-> method,
                 user |-> user, file |-> file,
                 slug |-> IF view = "load_home" THEN "none" ELSE slug]]
          /\ pc' = [pc EXCEPT ![w] =
                IF view = "load_home" THEN "lh_start" ELSE "jd_start"]
    /\ nreq' = nreq + 1
    /\ exc' = [exc EXCEPT ![w] = "none"]
    /\ messages' = [messages EXCEPT ![w] = <<>>]
    /\ data' = [data EXCEPT ![w] = None]
    /\ resume_status1' = [resume_status1 EXCEPT ![w] = "None"]
    /\ resume_status' = [resume_status EXCEPT ![w] = "None"]
    /\ doc_pred' = [doc_pred EXCEPT ![w] = "None"]
    /\ modl' = [modl EXCEPT ![w] = "None"]
    /\ keywords_token_set' = [keywords_token_set EXCEPT ![w] = None]
    /\ text' = [text EXCEPT ![w] = None]
    /\ features' = [features EXCEPT ![w] = None]
    /\ mnb' = [mnb EXCEPT ![w] = "None"]
    /\ handle' = [handle EXCEPT ![w] = NoHandles]
    /\ trace' = [trace EXCEPT ![w] = <<>>]
    /\ UNCHANGED <<db, counters>>

\* ------------------------------------------------------------ load_home
\* views.py 22-24: the method test, request.FILES['temp_resume'], resume.read()
lh_read(w) ==
    /\ pc[w] = "lh_start"
    /\ \/ /\ request[w].method = "GET"
          /\ Goto(w, "lh_render")
          /\ UNCHANGED <<data, trace>>
       \/ /\ request[w].method = "POST"
          /\ request[w].file = NoFile
          /\ Raise(w, "MultiValueDictKeyError")
          /\ UNCHANGED <<data, trace>>
       \/ /\ request[w].method = "POST"
          /\ request[w].file # NoFile
          /\ Raise(w, "IOError")
          /\ UNCHANGED <<data, trace>>
       \/ /\ request[w].method = "POST"
          /\ request[w].file # NoFile
          /\ data' = [data EXCEPT ![w] = Some(request[w].file)]
          /\ trace' = [trace EXCEPT ![w] = <<"Uploaded">>]
          /\ Goto(w, "rv_open")
    /\ UNCHANGED <<request, messages, resume_status1, resume_status, doc_pred,
                   modl, keywords_token_set, text, features, mnb, handle, db,
                   counters, nreq>>

\* ------------------------------------------- Resume.resume_verifier(data)
\* resume_verifier.py 24-27: the call is entered and the model file opened
rv_open(w) ==
    /\ pc[w] = "rv_open"
    /\ calls' = [calls EXCEPT ![VerifierFile] = @ + 1]
    /\ \/ /\ Raise(w, "FileNotFoundError")
          /\ UNCHANGED handle
       \/ /\ handle' = [handle EXCEPT ![w][VerifierFile] = "open"]
          /\ Goto(w, "rv_load")
    /\ UNCHANGED <<request, messages, locals, db, loads, uses, nreq, trace>>

\* the count of loads once joblib.load has read the file again
LoadVerifierOnceOnly ==
    IF loads[VerifierFile] > 0 THEN loads ELSE [loads EXCEPT ![VerifierFile] = @ + 1]
LoadVerifier == [loads EXCEPT ![VerifierFile] = @ + 1]

\* resume_verifier.py 28-29: joblib.load, then open_pickle.close()
rv_load(w) ==
    /\ pc[w] = "rv_load"
    /\ \/ /\ Raise(w, "UnpicklingError")
          /\ UNCHANGED <<modl, loads, handle>>
       \/ /\ modl' = [modl EXCEPT ![w] = doc_classifier_nb_model]
          /\ loads' = LoadVerifier
          /\ handle' = [handle EXCEPT ![w][VerifierFile] = "closed"]
          /\ Goto(w, "rv_predict")
    /\ UNCHANGED <<request, messages, data, resume_status1, resume_status,
                   doc_pred, keywords_token_set, text, features, mnb, db,
                   uses, calls, nreq, trace>>

\* resume_verifier.py 41: the value the function returns
VerifierReturn(pred) == "True"

\* resume_verifier.py 31-41: modl.predict, then the return to views.py 27
rv_predict(w) ==
    /\ pc[w] = "rv_predict"
    /\ \/ /\ Raise(w, "ValueError")
          /\ UNCHANGED <<doc_pred, resume_status1, uses, trace>>
       \/ \E pred \in Predictions :
          /\ doc_pred' = [doc_pred EXCEPT ![w] = pred]
          /\ uses' = [uses EXCEPT ![VerifierFile] = @ + 1]
          /\ resume_status1' = [resume_status1 EXCEPT ![w] = VerifierReturn(pred)]
          /\ trace' = [trace EXCEPT ![w] = Append(@, "Verified")]
          /\ Goto(w, "rc_vocab")
    /\ UNCHANGED <<request, messages, data, resume_status, modl,
                   keywords_token_set, text, features, mnb, handle, db,
                   loads, calls, nreq>>


\* ------------------------------------------ Resume.resume_classifier(data)
\* what garbage collection has done to a file object nothing refers to
\* by the time the statement that created it is over
Unreferenced == {"open", "closed"}

\* resume_classifier.py 54-72: the call is entered;
\* keywords_token_set = pickle.load(open(.../keywords_token_set.pickle, 'rb'))
rc_vocab(w) ==
    /\ pc[w] = "rc_vocab"
    /\ calls' = [calls EXCEPT ![VocabFile] = @ + 1, ![ClassifierFile] = @ + 1]
    /\ \/ /\ Raise(w, "FileNotFoundError")
          /\ UNCHANGED <<keywords_token_set, loads, handle>>
       \/ \E h \in Unreferenced :
          /\ handle' = [handle EXCEPT ![w][VocabFile] = h]
          /\ Raise(w, "UnpicklingError")
          /\ UNCHANGED <<keywords_token_set, loads>>
       \/ \E h \in Unreferenced :
          /\ handle' = [handle EXCEPT ![w][VocabFile] = h]
          /\ keywords_token_set' = [keywords_token_set EXCEPT ![w] = Some(StoredKeywords)]
          /\ loads' = [loads EXCEPT ![VocabFile] = @ + 1]
          /\ Goto(w, "rc_features")
    /\ UNCHANGED <<request, messages, data, resume_status1, resume_status,
                   doc_pred, modl, text, features, mnb, db, uses, nreq, trace>>

\* the vocabulary as the feature loop leaves it
KeywordsAfterLoopGrown(kts, text_) == kts \cup text_
KeywordsAfterLoop(kts, text_) == kts

\* resume_classifier.py 73-78: str(text), the stemmed tokens, the feature loop
rc_features(w) ==
    /\ pc[w] = "rc_features"
    /\ LET text_ == StemmedTokens(PyStr(data[w][1]))
           kts == keywords_token_set[w][1]
       IN /\ text' = [text EXCEPT ![w] = Some(text_)]
          /\ features' = [features EXCEPT ![w] = Some(FeatureLoop(kts, text_, EmptyDict))]
          /\ keywords_token_set' =
                [keywords_token_set EXCEPT ![w] = Some(KeywordsAfterLoop(kts, text_))]
    /\ uses' = [uses EXCEPT ![VocabFile] = @ + 1]
    /\ Goto(w, "rc_model")
    /\ UNCHANGED <<request, messages, data, resume_status1, resume_status,
                   doc_pred, modl, mnb, handle, db, loads, calls, nreq, trace>>

\* resume_classifier.py 80-81: load_model = open(...); mnb = pickle.load(load_model)
rc_model(w) ==
    /\ pc[w] = "rc_model"
    /\ \/ /\ Raise(w, "FileNotFoundError")
          /\ UNCHANGED <<mnb, loads, handle>>
       \/ /\ handle' = [handle EXCEPT ![w][ClassifierFile] = "open"]
          /\ Raise(w, "UnpicklingError")
          /\ UNCHANGED <<mnb, loads>>
       \/ /\ handle' = [handle EXCEPT ![w][ClassifierFile] = "open"]
          /\ mnb' = [mnb EXCEPT ![w] = resume_identifier]
          /\ loads' = [loads EXCEPT ![ClassifierFile] = @ + 1]
          /\ Goto(w, "rc_classify")
    /\ UNCHANGED <<request, messages, data, resume_status1, resume_status,
                   doc_pred, modl, keywords_token_set, text, features, db,
                   uses, calls, nreq, trace>>

\* resume_classifier.py 82-85: a = mnb.classify(features); load_model.close();
\* return a, which views.py 28 binds to resume_status
rc_classify(w) ==
    /\ pc[w] = "rc_classify"
    /\ \/ /\ Raise(w, "ClassificationError")
          /\ UNCHANGED <<resume_status, handle, uses, trace>>
       \/ \E a \in Labels :
          /\ uses' = [uses EXCEPT ![ClassifierFile] = @ + 1]
          /\ handle' = [handle EXCEPT ![w][ClassifierFile] = "closed"]
          /\ resume_status' = [resume_status EXCEPT ![w] = a]
          /\ trace' = [trace EXCEPT ![w] = Append(@, "Classified")]
          /\ Goto(w, "lh_branch")
    /\ UNCHANGED <<request, messages, data, resume_status1, doc_pred, modl,
                   keywords_token_set, text, features, mnb, db, loads, calls,
                   nreq>>

\* ------------------------------------------------- load_home, continued
\* the row TempResume.objects.create(temp_resume=resume) inserts
NewTemp(w) ==
    [id |-> Cardinality(TempResume) + 1, temp_resume |-> request[w].file,
     req |-> request[w].id]

\* views.py 30-38 and 59-60: the branch on resume_status; TempResume row,
\* user.recent_resume and the success message, or the error message
lh_branch(w) ==
    /\ pc[w] = "lh_branch"
    /\ \/ /\ ~PyTruthy(resume_status[w])
          /\ messages' = [messages EXCEPT ![w] = Append(@, MsgNotValid)]
          /\ trace' = [trace EXCEPT ![w] = Append(@, "Rejected")]
          /\ Goto(w, "lh_render")
          /\ UNCHANGED <<TempResume, recent_resume>>
       \/ /\ PyTruthy(resume_status[w])
          /\ Raise(w, "DatabaseError")
          /\ UNCHANGED <<TempResume, recent_resume, messages, trace>>
       \/ /\ PyTruthy(resume_status[w])
          /\ is_authenticated(request[w].user)
          /\ TempResume' = TempResume \cup {NewTemp(w)}
          /\ Raise(w, "DatabaseError")
          /\ UNCHANGED <<recent_resume, messages, trace>>
       \/ /\ PyTruthy(resume_status[w])
          /\ TempResume' = TempResume \cup {NewTemp(w)}
          /\ recent_resume' =
                IF is_authenticated(request[w].user)
                THEN [recent_resume EXCEPT ![request[w].user] = NewTemp(w).id]
                ELSE recent_resume
          /\ messages' = [messages EXCEPT ![w] = Append(@, MsgUploaded)]
          /\ Goto(w, "lh_parsed")
          /\ UNCHANGED trace
    /\ UNCHANGED <<request, locals, handle, ParsedResume, Applicant, counters, nreq>>

\* views.py 40-49: scraped_dict = Resume.parse_resume(); ParsedResume.objects.create
lh_parsed(w) ==
    /\ pc[w] = "lh_parsed"
    /\ \/ /\ Raise(w, "DatabaseError")
          /\ UNCHANGED <<ParsedResume, trace>>
       \/ /\ ParsedResume' = ParsedResume \cup
                {[id |-> Cardinality(ParsedResume) + 1, fields |-> parse_resume,
                  req |-> request[w].id]}
          /\ trace' = [trace EXCEPT ![w] = Append(@, "Persisted")]
          /\ Goto(w, "lh_profile")
    /\ UNCHANGED <<request, messages, locals, handle, TempResume, Applicant,
                   recent_resume, counters, nreq>>

\* views.py 50-57: UserProfile is not a name of views.py, so the create raises
\* NameError, which the bare except turns into a blank error message
lh_profile(w) ==
    /\ pc[w] = "lh_profile"
    /\ messages' = IF is_authenticated(request[w].user)
                   THEN [messages EXCEPT ![w] = Append(@, MsgBlank)]
                   ELSE messages
    /\ Goto(w, "lh_render")
    /\ UNCHANGED <<request, locals, handle, db, counters, nreq, trace>>

\* views.py 62-77: the queries for the page and render(); nothing is written
lh_render(w) ==
    /\ pc[w] = "lh_render"
    /\ Goto(w, "done")
    /\ UNCHANGED <<request, messages, locals, handle, db, counters, nreq, trace>>

\* ----------------------------------------------------------- job_detail
\* views.py 100-103: Job.objects.get(slug=slug), the method test and
\* request.FILES['resume']
jd_get(w) ==
    /\ pc[w] = "jd_start"
    /\ \/ /\ request[w].slug \notin Jobs
          /\ Raise(w, "DoesNotExist")
       \/ /\ request[w].slug \in Jobs
          /\ request[w].method = "GET"
          /\ Goto(w, "jd_render")
       \/ /\ request[w].slug \in Jobs
          /\ request[w].method = "POST"
          /\ request[w].file = NoFile
          /\ Raise(w, "MultiValueDictKeyError")
       \/ /\ request[w].slug \in Jobs
          /\ request[w].method = "POST"
          /\ request[w].file # NoFile
          /\ Goto(w, "jd_verify")
    /\ UNCHANGED <<request, messages, locals, handle, db, counters, nreq, trace>>

\* views.py 106: Resume.resume_verifier() is called with no argument, while
\* resume_verifier.py 24 declares the parameter text_file: the call raises
\* TypeError before the function body is entered, on every application
jd_verify(w) ==
    /\ pc[w] = "jd_verify"
    /\ Raise(w, "TypeError")
    /\ UNCHANGED <<request, messages, locals, handle, db, counters, nreq, trace>>

\* views.py 127-129: related jobs and render()
jd_render(w) ==
    /\ pc[w] = "jd_render"
    /\ Goto(w, "done")
    /\ UNCHANGED <<request, messages, locals, handle, db, counters, nreq, trace>>

\* ------------------------------------------------------ the specification
\* a step of the worker serving requests; it touches neither the job
\* listing nor the profiles
Next ==
    \E w \in Sequential :
        \/ Request(w) /\ UNCHANGED <<listing, profile>>
        \/ lh_read(w) /\ UNCHANGED <<listing, profile>>
        \/ rv_open(w) /\ UNCHANGED <<listing, profile>>
        \/ rv_load(w) /\ UNCHANGED <<listing, profile>>
        \/ rv_predict(w) /\ UNCHANGED <<listing, profile>>
        \/ rc_vocab(w) /\ UNCHANGED <<listing, profile>>
        \/ rc_features(w) /\ UNCHANGED <<listing, profile>>
        \/ rc_model(w) /\ UNCHANGED <<listing, profile>>
        \/ rc_classify(w) /\ UNCHANGED <<listing, profile>>
        \/ lh_branch(w) /\ UNCHANGED <<listing, profile>>
        \/ lh_parsed(w) /\ UNCHANGED <<listing, profile>>
        \/ lh_profile(w) /\ UNCHANGED <<listing, profile>>
        \/ lh_render(w) /\ UNCHANGED <<listing, profile>>
        \/ jd_get(w) /\ UNCHANGED <<listing, profile>>
        \/ jd_verify(w) /\ UNCHANGED <<listing, profile>>
        \/ jd_render(w) /\ UNCHANGED <<listing, profile>>

Spec == Init /\ [][Next]_vars


\* ------------------------------------ two job_detail requests at a time
\* the requests job_detail can be called with
JobDetailRequests ==
    {r \in [id : 1..2, view : {"job_detail"}, method : {"GET", "POST"},
            user : Users, file : Docs \cup {NoFile}, slug : Slugs] :
        r.method = "GET" => r.file = NoFile}

\* both workers have received a job_detail request and neither has started
ConcurrentInit ==
    /\ pc = [w \in Workers |-> "jd_start"]
    /\ request \in [Workers -> JobDetailRequests]
    /\ request["w1"].id = 1
    /\ request["w2"].id = 2
    /\ nreq = 2
    /\ Fresh
    /\ Job = {1}
    /\ ListingIdle
    /\ ProfilesEmpty

\* the statements of the two handlers interleave in any order
ConcurrentNext ==
    \E w \in Workers :
        \/ jd_get(w) /\ UNCHANGED <<listing, profile>>
        \/ jd_verify(w) /\ UNCHANGED <<listing, profile>>
        \/ jd_render(w) /\ UNCHANGED <<listing, profile>>

SpecConcurrent == ConcurrentInit /\ [][ConcurrentNext]_vars

\* --------------------------------------------------------- filtered_job
\* resume_verifier.py 98-100: Resume.filtered_jobs() returns the tuple (1,2,4)
filtered_jobs == <<1, 2, 4>>

\* Job.objects.get(id=i): the row, or DoesNotExist (None here)
JobGetAny(i) == Some(i)
JobGet(i) == IF i \in Job THEN Some(i) ELSE None

\* the Job table holds any rows with ids up to MaxJobId
ListingInit ==
    /\ WebInit
    /\ Job \in SUBSET (1..MaxJobId)
    /\ ListingIdle
    /\ ProfilesEmpty

\* a request for the filtered job list comes in
ListRequest(w) ==
    /\ pc[w] \in {"idle", "done", "crashed"}
    /\ nreq < MaxRequests
    /\ request' = [request EXCEPT ![w] =
          [NoRequest EXCEPT !.id = nreq + 1, !.view = "filtered_job"]]
    /\ nreq' = nreq + 1
    /\ pc' = [pc EXCEPT ![w] = "fj_start"]
    /\ exc' = [exc EXCEPT ![w] = "none"]
    /\ messages' = [messages EXCEPT ![w] = <<>>]
    /\ job' = [job EXCEPT ![w] = <<>>]
    /\ todo' = [todo EXCEPT ![w] = <<>>]
    /\ UNCHANGED <<locals, handle, db, counters, trace, Job, profile>>

\* views.py 185-186: job = []; ids = Resume.filtered_jobs()
fj_start(w) ==
    /\ pc[w] = "fj_start"
    /\ job' = [job EXCEPT ![w] = <<>>]
    /\ todo' = [todo EXCEPT ![w] = filtered_jobs]
    /\ Goto(w, "fj_loop")
    /\ UNCHANGED <<request, messages, locals, handle, db, counters, nreq,
                   trace, Job, profile>>

\* views.py 187-193: one turn of the loop: job.append(Job.objects.get(id=i)),
\* and `except: pass` when the lookup raises
fj_lookup(w) ==
    /\ pc[w] = "fj_loop"
    /\ todo[w] # <<>>
    /\ LET i == Head(todo[w])
       IN \/ /\ JobGet(i) # None
             /\ job' = [job EXCEPT ![w] = Append(@, JobGet(i)[1])]
          \/ /\ JobGet(i) = None
             /\ UNCHANGED job
    /\ todo' = [todo EXCEPT ![w] = Tail(@)]
    /\ Goto(w, "fj_loop")
    /\ UNCHANGED <<request, messages, locals, handle, db, counters, nreq,
                   trace, Job, profile>>

\* views.py 195-196: the loop is over; render() with the list
fj_render(w) ==
    /\ pc[w] = "fj_loop"
    /\ todo[w] = <<>>
    /\ Goto(w, "done")
    /\ UNCHANGED <<request, messages, locals, handle, db, counters, nreq,
                   trace, listing, profile>>

ListingNext ==
    \E w \in Sequential :
        \/ ListRequest(w)
        \/ fj_start(w)
        \/ fj_lookup(w)
        \/ fj_render(w)

SpecListing == ListingInit /\ [][ListingNext]_vars

\* ------------------------------------------- UserProfile.profile_status
\* `if self.<section>.all():` on a related manager: true when a row is related
Populated(n) == n > 0

\* models.py 230-241: temp = 25, then one increment per populated section
profile_status_skills_25(p) ==
    LET temp0 == 25
        temp1 == IF Populated(education[p]) THEN temp0 + 25 ELSE temp0
        temp2 == IF Populated(work_experience[p]) THEN temp1 + 25 ELSE temp1
        temp3 == IF Populated(trainings[p]) THEN temp2 + 10 ELSE temp2
        temp4 == IF Populated(skills[p]) THEN temp3 + 25 ELSE temp3
    IN temp4
profile_status(p) ==
    LET temp0 == 25
        temp1 == IF Populated(education[p]) THEN temp0 + 25 ELSE temp0
        temp2 == IF Populated(work_experience[p]) THEN temp1 + 25 ELSE temp1
        temp3 == IF Populated(trainings[p]) THEN temp2 + 10 ELSE temp2
        temp4 == IF Populated(skills[p]) THEN temp3 + 15 ELSE temp3
    IN temp4

\* any two profiles, each section with 0..MaxRows related rows
ProfileInit ==
    /\ WebInit
    /\ Job = {1}
    /\ ListingIdle
    /\ education \in [Profiles -> 0..MaxRows]
    /\ work_experience \in [Profiles -> 0..MaxRows]
    /\ trainings \in [Profiles -> 0..MaxRows]
    /\ skills \in [Profiles -> 0..MaxRows]
    /\ status = [p \in Profiles |-> None]

\* a call of profile_status() on the profile p
ProfileStatus(p) ==
    /\ status' = [status EXCEPT ![p] = Some(profile_status(p))]
    /\ UNCHANGED <<web, listing, education, work_experience, trainings, skills>>

ProfileNext == \E p \in Profiles : ProfileStatus(p)

SpecProfile == ProfileInit /\ [][ProfileNext]_vars

\* ----------------------------------------------------------- the claims
Ended(w) == pc[w] \in {"done", "crashed"}
HasError(w) == \E i \in 1..Len(messages[w]) : messages[w][i][1] = "error"
InTrace(w, st) == \E i \in 1..Len(trace[w]) : trace[w][i] = st
TempRowsOf(w) == {t \in TempResume : t.req = request[w].id}
ParsedRowsOf(w) == {p \in ParsedResume : p.req = request[w].id}
IsApplication(w) ==
    /\ request[w].view = "job_detail"
    /\ request[w].method = "POST"
    /\ request[w].file # NoFile
    /\ request[w].slug \in Jobs

\* C1: once a job application submitted through job_detail has been handled,
\* the Applicant store holds exactly one row for its (job, applicant) pair,
\* and never more than one row for any pair.
C1_OneRecordPerPair ==
    /\ \A j \in Jobs, u \in Users :
          Cardinality({a \in Applicant : a.job = j /\ a.applicant = u}) <= 1
    /\ \A w \in Workers :
          (Ended(w) /\ IsApplication(w)) =>
             Cardinality({a \in Applicant : /\ a.job = request[w].slug
                                            /\ a.applicant = request[w].user}) = 1

\* C2: a request that has been handled and whose document the verifier model
\* decided is not a resume (prediction 0) issued an error message, created no
\* TempResume, ParsedResume or Applicant row and left recent_resume alone.
C2_RejectedOnVerifyFalse ==
    \A w \in Workers :
        (pc[w] = "done" /\ doc_pred[w] = "0") =>
            /\ HasError(w)
            /\ TempRowsOf(w) = {}
            /\ ParsedRowsOf(w) = {}
            /\ \A a \in Applicant : a.req # request[w].id
            /\ \A u \in DOMAIN recent_resume :
                  \A t \in TempRowsOf(w) : recent_resume[u] # t.id

\* C3: what resume_verifier returns is the model's decision: true iff the
\* model predicted label 1.
C3_VerifierReturnsDecision ==
    \A w \in Workers :
        resume_status1[w] # "None" =>
            (resume_status1[w] = "True" <=> doc_pred[w] = "1")

C5_ExceptionSurfacesAsMessage ==
    \A w \in Workers :
        (request[w].view = "load_home" /\ exc[w] # "none") =>
            /\ pc[w] # "crashed"
            /\ HasError(w)

\* C6: when classification has failed on the uploaded text, the request takes
\* the Rejected path with the invalid-resume message and does not crash.
C6_ClassificationErrorRejects ==
    \A w \in Workers :
        exc[w] = "ClassificationError" =>
            /\ pc[w] # "crashed"
            /\ InTrace(w, "Rejected")
            /\ \E i \in 1..Len(messages[w]) : messages[w][i] = MsgNotValid

VerifierCallOver(w) == pc[w] \notin {"rv_open", "rv_load", "rv_predict"}
ClassifierCallOver(w) ==
    pc[w] \notin {"rc_vocab", "rc_features", "rc_model", "rc_classify"}
C8_HandlesClosed ==
    \A w \in Workers :
        /\ VerifierCallOver(w) => handle[w][VerifierFile] # "open"
        /\ ClassifierCallOver(w) =>
              /\ handle[w][VocabFile] # "open"
              /\ handle[w][ClassifierFile] # "open"

\* the word tokens of a text, said directly: the runs of word characters that
\* cannot be extended to either side
WordRuns(s) ==
    {SubSeq(s, p[1], p[2]) :
        p \in {q \in (1..Len(s)) \X (1..Len(s)) :
                 /\ q[1] <= q[2]
                 /\ \A k \in q[1]..q[2] : IsWordChar(s[k])
                 /\ q[1] = 1 \/ ~IsWordChar(s[q[1] - 1])
                 /\ q[2] = Len(s) \/ ~IsWordChar(s[q[2] + 1])}}
TokenSetOf(doc) == {stem(t) : t \in WordRuns(Lower(doc))}

\* C9: the feature vector has exactly the vocabulary words as its keys, and a
\* key maps to true iff the word is one of the stemmed lowercase word tokens
\* of the uploaded text.
C9_FeatureVector ==
    \A w \in Workers :
        features[w] # None =>
            /\ DOMAIN features[w][1] = StoredKeywords
            /\ \A word \in StoredKeywords :
                  features[w][1][word] = (word \in TokenSetOf(data[w][1]))

\* C10: whatever verify and classify calls have run, the vocabulary and the
\* models a call holds are what loading the stored artifacts yields.
C10_ArtifactsUnchanged ==
    \A w \in Workers :
        /\ keywords_token_set[w] # None => keywords_token_set[w][1] = StoredKeywords
        /\ mnb[w] # "None" => mnb[w] = resume_identifier
        /\ modl[w] # "None" => modl[w] = doc_classifier_nb_model

C10_Witness ==
    \E w \in Workers :
        /\ pc[w] = "lh_branch"
        /\ resume_status[w] # "None"
        /\ features[w] # None
        /\ keywords_token_set[w] = Some(StoredKeywords)
        /\ nreq = 2


\* the sections of a profile that have a related row
PopulatedSections(p) ==
    {x \in {"education", "work_experience", "trainings", "skills"} :
        \/ x = "education" /\ education[p] > 0
        \/ x = "work_experience" /\ work_experience[p] > 0
        \/ x = "trainings" /\ trainings[p] > 0
        \/ x = "skills" /\ skills[p] > 0}

\* C11: for two profiles whose scores have been computed, the one whose
\* populated sections are a subset of the other's has the smaller or equal
\* score; every score lies between 25 and 100, and it is 100 exactly when all
\* four sections are populated.
C11_ScoreMonotoneBounded ==
    /\ \A p \in Profiles :
          status[p] # None =>
              /\ status[p][1] >= 25
              /\ status[p][1] <= 100
              /\ status[p][1] = 100 <=> Cardinality(PopulatedSections(p)) = 4
    /\ \A p, q \in Profiles :
          (/\ status[p] # None
           /\ status[q] # None
           /\ PopulatedSections(p) \subseteq PopulatedSections(q)) =>
              status[p][1] <= status[q][1]

C11_Witness ==
    /\ status["p1"] # None
    /\ status["p2"] # None
    /\ PopulatedSections("p1") = {"trainings"}
    /\ PopulatedSections("p2") = {"education", "work_experience", "trainings", "skills"}
    /\ status["p1"][1] = 35
    /\ status["p2"][1] = 100


\* C12: when two applications by the same user for the same job have been
\* handled side by side, neither request has failed and the Applicant store
\* holds at most one row for that (job, applicant) pair.
C12_ConcurrentApplicationsSafe ==
    \A w, v \in Workers :
        (/\ w # v
         /\ IsApplication(w) /\ IsApplication(v)
         /\ request[w].slug = request[v].slug
         /\ request[w].user = request[v].user
         /\ Ended(w) /\ Ended(v)) =>
            /\ pc[w] = "done" /\ exc[w] = "none"
            /\ pc[v] = "done" /\ exc[v] = "none"
            /\ Cardinality({a \in Applicant : /\ a.job = request[w].slug
                                             /\ a.applicant = request[w].user}) <= 1


\* C13: a load_home request that has issued the success message and created
\* its ParsedResume row has issued no error message, and a request that has
\* issued the invalid-resume error has created no row.
C13_SuccessExcludesError ==
    \A w \in Workers :
        request[w].view = "load_home" =>
            /\ (/\ \E i \in 1..Len(messages[w]) : messages[w][i] = MsgUploaded
                /\ ParsedRowsOf(w) # {}) => ~HasError(w)
            /\ (\E i \in 1..Len(messages[w]) : messages[w][i] = MsgNotValid) =>
                  /\ TempRowsOf(w) = {}
                  /\ ParsedRowsOf(w) = {}

\* the ids of the list for which a Job row is stored, in the order of the list
IsStored(i) == i \in Job
StoredOf(ids) == SelectSeq(ids, IsStored)

\* C14: filtered_job never ends in an exception; when it has run, its list
\* holds exactly the stored jobs among the ids (1, 2, 4), in that order, no
\* message has been issued, and no step of it changes a table.
C14_ListState ==
    \A w \in Workers :
        request[w].view = "filtered_job" =>
            /\ pc[w] # "crashed"
            /\ exc[w] = "none"
            /\ messages[w] = <<>>
            /\ pc[w] = "done" => job[w] = StoredOf(filtered_jobs)
C14_MissingIdsSkipped ==
    /\ []C14_ListState
    /\ [][Job' = Job /\ db' = db]_vars

C14_Witness ==
    \E w \in Workers :
        /\ request[w].view = "filtered_job"
        /\ pc[w] = "done"
        /\ Job = {1, 3, 4}
        /\ job[w] = <<1, 4>>

====
